---- MODULE Spec2Model ----
(***************************************************************************)
(* Attendance processor (src/attendace.py): an uploaded punch log is       *)
(* read into a table, reduced to (UserID, Timestamp, Date) events,         *)
(* summarised into one row per (UserID, Date) group and counted per        *)
(* employee.  Text is a sequence of one-character strings, so that         *)
(* lower(), strip() and to_numeric() are computed and not assumed.         *)
(***************************************************************************)
EXTENDS Integers, Sequences, FiniteSets, TLC

\* ------------------------------------------------------------------ bounds
\* most data rows of an attendance file
MaxRows == 3
\* most data rows of a file of the format-sniffing family
MaxSniffRows == 2

\* --------------------------------------------------------- program constants
employees ==
  [n \in {1, 2, 3, 4, 6, 7, 8, 9, 10, 13, 15, 16, 17, 18, 19, 20, 21, 24, 26,
          29, 30, 31, 32, 33} |->
     CASE n = 1 -> "Ishmal" [] n = 2 -> "Owais" [] n = 3 -> "Neha"
       [] n = 4 -> "Sarah" [] n = 6 -> "Musfira" [] n = 7 -> "Ayesha"
       [] n = 8 -> "Junaid" [] n = 9 -> "Abd-ur-Rehman" [] n = 10 -> "Samra"
       [] n = 13 -> "Shahida" [] n = 15 -> "Seerat" [] n = 16 -> "Usman"
       [] n = 17 -> "Mahad" [] n = 18 -> "Eman" [] n = 19 -> "Izaz"
       [] n = 20 -> "Kiran" [] n = 21 -> "Hammad" [] n = 24 -> "Faiza"
       [] n = 26 -> "Laiba" [] n = 29 -> "Ushna" [] n = 30 -> "Ali"
       [] n = 31 -> "Adnan" [] n = 32 -> "Yaseen" [] n = 33 -> "Abbas"]

EmployeeNames == {employees[n] : n \in DOMAIN employees}

CHECKIN_THRESHOLD == [hour |-> 9, minute |-> 2, second |-> 0]
CHECKOUT_THRESHOLD == [hour |-> 17, minute |-> 0, second |-> 0]

CANDIDATE_USER_COLS ==
  << <<"u","s","e","r","i","d">>, <<"u","s","e","r","_","i","d">>,
     <<"p","i","n">>, <<"e","n","r","o","l","l","i","d">>,
     <<"e","m","p","i","d">>, <<"i","d">> >>

CANDIDATE_TIME_COLS ==
  << <<"t","i","m","e","s","t","a","m","p">>, <<"t","i","m","e">>,
     <<"d","a","t","e","t","i","m","e">>, <<"l","o","g","t","i","m","e">>,
     <<"p","u","n","c","h"," ","t","i","m","e">>,
     <<"p","u","n","c","h","_","t","i","m","e">> >>

\* the delimiters _try_read_csv tries, in order
Separators == <<"\t", ",", ";", "|">>

\* the formats parse_dt tries, in order
DateTimeFormats ==
  <<"%Y-%m-%d %H:%M:%S", "%d/%m/%Y %H:%M:%S", "%m/%d/%Y %H:%M:%S",
    "%Y/%m/%d %H:%M:%S", "%d-%m-%Y %H:%M:%S", "%Y-%m-%d %H:%M",
    "%d/%m/%Y %H:%M", "%m/%d/%Y %H:%M">>

\* ------------------------------------------------------------------- text
UpperChars ==
  <<"A","B","C","D","E","F","G","H","I","J","K","L","M",
    "N","O","P","Q","R","S","T","U","V","W","X","Y","Z">>
LowerChars ==
  <<"a","b","c","d","e","f","g","h","i","j","k","l","m",
    "n","o","p","q","r","s","t","u","v","w","x","y","z">>
DigitChars == <<"0","1","2","3","4","5","6","7","8","9">>

\* str.lower() of one character
LowerChar(c) ==
  IF \E i \in 1..26 : UpperChars[i] = c
  THEN LowerChars[CHOOSE i \in 1..26 : UpperChars[i] = c]
  ELSE c

\* str.lower()
Lower(s) == [i \in 1..Len(s) |-> LowerChar(s[i])]

IsSpace(c) == c \in {" ", "\t"}
IsDigit(c) == \E i \in 1..10 : DigitChars[i] = c
DigitVal(c) == (CHOOSE i \in 1..10 : DigitChars[i] = c) - 1

RECURSIVE LStrip(_)
LStrip(s) == IF s # <<>> /\ IsSpace(Head(s)) THEN LStrip(Tail(s)) ELSE s

RECURSIVE RStrip(_)
RStrip(s) ==
  IF s # <<>> /\ IsSpace(s[Len(s)]) THEN RStrip(SubSeq(s, 1, Len(s) - 1)) ELSE s

\* str.strip()
Strip(s) == RStrip(LStrip(s))

RECURSIVE DigitsValue(_)
DigitsValue(s) ==
  IF s = <<>> THEN 0 ELSE DigitsValue(SubSeq(s, 1, Len(s) - 1)) * 10 + DigitVal(s[Len(s)])

\* a missing number (NaN) is the empty tuple, a number n is <<n>>
NaN == <<>>

\* pd.to_numeric(errors="coerce") of one string: surrounding blanks are
\* skipped, a run of digits is its value, anything else is NaN
ToNumeric(s) ==
  LET t == Strip(s)
  IN IF t # <<>> /\ \A i \in 1..Len(t) : IsDigit(t[i]) THEN <<DigitsValue(t)>> ELSE NaN

\* str() of a non-negative integer
RECURSIVE IntToStr(_)
IntToStr(n) ==
  IF n < 10 THEN <<DigitChars[n + 1]>> ELSE Append(IntToStr(n \div 10), DigitChars[(n % 10) + 1])

\* the order of Python's str comparison on blanks, digits and letters (the
\* identifiers the sort compares by text are runs of digits)
CharRank(c) ==
  IF IsSpace(c) THEN 0
  ELSE IF IsDigit(c) THEN 1 + DigitVal(c)
  ELSE IF \E i \in 1..26 : UpperChars[i] = c THEN 20 + (CHOOSE i \in 1..26 : UpperChars[i] = c)
  ELSE IF \E i \in 1..26 : LowerChars[i] = c THEN 60 + (CHOOSE i \in 1..26 : LowerChars[i] = c)
  ELSE 50

RECURSIVE StrLess(_, _)
StrLess(a, b) ==
  IF b = <<>> THEN FALSE
  ELSE IF a = <<>> THEN TRUE
  ELSE IF CharRank(Head(a)) # CharRank(Head(b)) THEN CharRank(Head(a)) < CharRank(Head(b))
  ELSE StrLess(Tail(a), Tail(b))


\* ------------------------------------------------------------ file cells
\* A field of a line is a piece of text, or a date-time written in one of
\* the ISO formats of DateTimeFormats (date is the day of January 2024).
TextCell(s) == [k |-> "text", s |-> s]
TsCell(fmt, date, h, m, sec) ==
  [k |-> "ts", fmt |-> fmt, date |-> date, hour |-> h, minute |-> m, second |-> sec]

HasSeconds(fmt) == fmt \in {DateTimeFormats[i] : i \in 1..5}

Pad2(n) == IF n < 10 THEN <<"0">> \o IntToStr(n) ELSE IntToStr(n)

DateText(c) == <<"2","0","2","4","-","0","1","-">> \o Pad2(c.date)
TimeText(c) ==
  Pad2(c.hour) \o <<":">> \o Pad2(c.minute)
    \o (IF HasSeconds(c.fmt) THEN <<":">> \o Pad2(c.second) ELSE <<>>)

\* the text of a field, as read_csv keeps it in an object column or a header
CellText(c) ==
  CASE c.k = "text" -> c.s
    [] c.k = "int" -> IntToStr(c.n)
    [] c.k = "ts" -> DateText(c) \o <<" ">> \o TimeText(c)
    [] c.k = "date" -> DateText(c)
    [] c.k = "time" -> TimeText(c)

\* str.split() of a text: its maximal runs of non-blank characters
RECURSIVE SplitText(_, _)
SplitText(s, cur) ==
  IF s = <<>> THEN (IF cur = <<>> THEN <<>> ELSE <<TextCell(cur)>>)
  ELSE IF IsSpace(Head(s))
       THEN (IF cur = <<>> THEN <<>> ELSE <<TextCell(cur)>>) \o SplitText(Tail(s), <<>>)
       ELSE SplitText(Tail(s), Append(cur, Head(s)))

\* the whitespace-separated fields of one field: a written date-time holds
\* one blank, between its date and its time
WsSplit(c) ==
  IF c.k = "ts"
  THEN << [k |-> "date", fmt |-> c.fmt, date |-> c.date],
          [k |-> "time", fmt |-> c.fmt, hour |-> c.hour, minute |-> c.minute,
           second |-> c.second] >>
  ELSE SplitText(CellText(c), <<>>)

RECURSIVE WsFields(_)
WsFields(line) == IF line = <<>> THEN <<>> ELSE WsSplit(Head(line)) \o WsFields(Tail(line))

\* ------------------------------------------------------------ data frames
\* pd.read_csv failed (an exception, or None)
NoTable == [ok |-> FALSE]
Table(labels, rows) == [ok |-> TRUE, labels |-> labels, rows |-> rows]

StrLabel(s) == [k |-> "str", s |-> s]
IntLabel(n) == [k |-> "int", n |-> n]

\* read_csv's type inference of one column: a column whose every value is a
\* number becomes an integer column, any other column keeps its text
ColumnIsNumeric(rows, j) ==
  \A i \in 1..Len(rows) :
    /\ j <= Len(rows[i])
    /\ rows[i][j].k = "text"
    /\ ToNumeric(rows[i][j].s) # NaN

InferTypes(rows) ==
  [i \in 1..Len(rows) |->
    [j \in 1..Len(rows[i]) |->
      IF ColumnIsNumeric(rows, j)
      THEN [k |-> "int", n |-> ToNumeric(rows[i][j].s)[1]]
      ELSE rows[i][j]]]

\* the text of a line: its fields joined by the file's delimiter
RECURSIVE JoinFields(_, _)
JoinFields(line, delim) ==
  IF line = <<>> THEN <<>>
  ELSE IF Len(line) = 1 THEN CellText(Head(line))
  ELSE CellText(Head(line)) \o <<delim>> \o JoinFields(Tail(line), delim)

\* the fields of a line read with separator sep: the line's fields when the
\* file is written with sep, else the whole line as one field
FieldsWith(f, line, sep) ==
  IF f.delim = sep THEN line ELSE <<TextCell(JoinFields(line, f.delim))>>

\* pd.read_csv(buf, sep=sep, engine="python"): the first line is the header
ReadCsvSep(f, sep) ==
  IF f.lines = <<>> THEN NoTable
  ELSE LET hdr == FieldsWith(f, Head(f.lines), sep)
           body == [i \in 1..(Len(f.lines) - 1) |-> FieldsWith(f, f.lines[i + 1], sep)]
       IN Table([j \in 1..Len(hdr) |-> StrLabel(CellText(hdr[j]))], InferTypes(body))

\* pd.read_csv(buf, delim_whitespace=True, engine="python", header=None):
\* every line is data, the labels are 0, 1, ...; a line with more fields than
\* the first raises (no generated file has a line with fewer)
ReadCsvWhitespace(f) ==
  IF f.lines = <<>> THEN NoTable
  ELSE LET rows == [i \in 1..Len(f.lines) |-> WsFields(f.lines[i])]
           width == Len(rows[1])
       IN IF \E i \in 1..Len(rows) : Len(rows[i]) # width
          THEN NoTable
          ELSE Table([j \in 1..width |-> IntLabel(j - 1)], InferTypes(rows))

RECURSIVE TrySeparators(_, _)
TrySeparators(f, i) ==
  IF i > Len(Separators) THEN ReadCsvWhitespace(f)
  ELSE LET df == ReadCsvSep(f, Separators[i])
       IN IF df.ok /\ Len(df.labels) >= 2 THEN df ELSE TrySeparators(f, i + 1)

try_read_csv(f) == TrySeparators(f, 1)

\* "<FF>" stands for the byte 0xFF, which no UTF-8 text holds, and "<U+00FF>"
\* for the character Latin-1 reads it as
InvalidByte == "<FF>"
Latin1OfInvalidByte == "<U+00FF>"

CellBytes(c) == IF c.k = "text" THEN {c.s[i] : i \in 1..Len(c.s)} ELSE {}

\* file_bytes.decode("utf-8") succeeds
Utf8Decodes(f) ==
  \A i \in 1..Len(f.lines) : \A j \in 1..Len(f.lines[i]) :
    InvalidByte \notin CellBytes(f.lines[i][j])

Latin1Cell(c) ==
  IF c.k = "text"
  THEN [c EXCEPT !.s = [i \in 1..Len(c.s) |->
                          IF c.s[i] = InvalidByte THEN Latin1OfInvalidByte ELSE c.s[i]]]
  ELSE c

\* _coerce_encoding: the text of the bytes, read as UTF-8 or else as Latin-1
coerce_encoding(f) ==
  IF Utf8Decodes(f) THEN f
  ELSE [f EXCEPT !.lines = [i \in 1..Len(f.lines) |->
                              [j \in 1..Len(f.lines[i]) |-> Latin1Cell(f.lines[i][j])]]]

\* the columns _detect_columns returns, as positions (0 is None)
LowerCols(labels, key) ==
  LET hits == {j \in 1..Len(labels) : Lower(labels[j].s) = key}
  IN IF hits = {} THEN 0 ELSE CHOOSE j \in hits : \A h \in hits : h <= j

RECURSIVE FirstCandidate(_, _, _)
FirstCandidate(labels, cands, i) ==
  IF i > Len(cands) THEN 0
  ELSE IF LowerCols(labels, cands[i]) # 0 THEN LowerCols(labels, cands[i])
  ELSE FirstCandidate(labels, cands, i + 1)

detect_columns(labels) ==
  LET user_col == FirstCandidate(labels, CANDIDATE_USER_COLS, 1)
      ts_col == FirstCandidate(labels, CANDIDATE_TIME_COLS, 1)
  IN IF user_col = 0 /\ ts_col = 0 /\ Len(labels) >= 2
     THEN <<1, 2>>
     ELSE <<user_col, ts_col>>

\* ------------------------------------------------------------ timestamps
NaT == [nat |-> TRUE]
Timestamp(date, h, m, sec) == [date |-> date, hour |-> h, minute |-> m, second |-> sec]

\* Timestamp.weekday(): Monday is 0; 1 January 2024 is a Monday
Weekday(date) == (date - 1) % 7

\* datetime.time of a Timestamp
TimeOf(ts) == [hour |-> ts.hour, minute |-> ts.minute, second |-> ts.second]

\* datetime.time comparison t < u
TimeLess(t, u) ==
  \/ t.hour < u.hour
  \/ t.hour = u.hour /\ t.minute < u.minute
  \/ t.hour = u.hour /\ t.minute = u.minute /\ t.second < u.second

\* Timestamp comparison a < b
TsLess(a, b) == a.date < b.date \/ (a.date = b.date /\ TimeLess(TimeOf(a), TimeOf(b)))

\* pd.to_datetime(x, format=fmt) succeeds exactly on text written in fmt
MatchesFormat(c, fmt) == c.k = "ts" /\ c.fmt = fmt

\* pd.to_datetime(x, errors="coerce"): a bare date is midnight of that date,
\* text that holds no date is NaT
GenericParse(c) ==
  IF c.k = "date" THEN Timestamp(c.date, 0, 0, 0) ELSE NaT

RECURSIVE TryFormats(_, _)
TryFormats(c, i) ==
  IF i > Len(DateTimeFormats) THEN GenericParse(c)
  ELSE IF MatchesFormat(c, DateTimeFormats[i])
       THEN Timestamp(c.date, c.hour, c.minute,
                      IF HasSeconds(DateTimeFormats[i]) THEN c.second ELSE 0)
       ELSE TryFormats(c, i + 1)

parse_dt(c) == TryFormats(c, 1)

\* ------------------------------------------------------ _extract_dataframe
ColLabel(i) == StrLabel(<<"c","o","l","_">> \o IntToStr(i))

\* raw.columns after the header coercion
CoerceLabels(labels) ==
  IF \E j \in 1..Len(labels) : labels[j].k # "str"
  THEN [j \in 1..Len(labels) |-> ColLabel(j)]
  ELSE labels

\* df["UserID"].astype(str).str.strip()
UserIdOf(c) == Strip(CellText(c))

Event(uid, ts) == [UserID |-> uid, Timestamp |-> ts, Date |-> ts.date]

\* mutant: only Sunday is a weekend day
KeepWeekdayAndSaturday(weekends, ev) == weekends => Weekday(ev.Timestamp.date) < 6
KeepWeekday(weekends, ev) == weekends => Weekday(ev.Timestamp.date) < 5

\* the rows of df: parsed, NaT rows dropped, weekend rows dropped on request
EventsOf(rows, cols, weekends) ==
  LET parsed == [i \in 1..Len(rows) |->
                   [UserID |-> UserIdOf(rows[i][cols[1]]),
                    Timestamp |-> parse_dt(rows[i][cols[2]])]]
      valid == SelectSeq(parsed, LAMBDA r : r.Timestamp # NaT)
      dated == [i \in 1..Len(valid) |-> Event(valid[i].UserID, valid[i].Timestamp)]
  IN SelectSeq(dated, LAMBDA ev : KeepWeekday(weekends, ev))

\* the two st.error messages
ParseError == "Could not parse the file"
ColumnDetectionError == "Could not detect UserID/Timestamp columns"

Stopped(msg) == [error |-> msg, df |-> <<>>]

extract_dataframe(f, weekends) ==
  LET raw == try_read_csv(coerce_encoding(f))
  IN IF ~raw.ok \/ raw.rows = <<>> \/ raw.labels = <<>>
     THEN Stopped(ParseError)
     ELSE LET labels == CoerceLabels(raw.labels)
              cols == detect_columns(labels)
          IN IF cols[1] = 0 \/ cols[2] = 0
             THEN Stopped(ColumnDetectionError)
             ELSE [error |-> "", df |-> EventsOf(raw.rows, cols, weekends)]

\* ---------------------------------------------------- _summarize_attendance
SeqRange(q) == {q[i] : i \in 1..Len(q)}

\* the keys of df.groupby(["UserID", "Date"])
GroupKeys(df) == {<<ev.UserID, ev.Date>> : ev \in SeqRange(df)}

GroupOf(df, key) == {ev.Timestamp : ev \in {e \in SeqRange(df) : <<e.UserID, e.Date>> = key}}

\* mutant: the first punch is taken with max, like the last
MinTsTakesMax(S) == CHOOSE a \in S : \A b \in S : ~TsLess(a, b)
MinTs(S) == CHOOSE a \in S : \A b \in S : ~TsLess(b, a)
MaxTs(S) == CHOOSE a \in S : \A b \in S : ~TsLess(a, b)

\* merged["UserID_int"].map(employees): a missing name is the empty string
NoName == ""
\* mutant: an identifier the directory lacks gets a placeholder name
NameOfWithDefault(v) ==
  IF v = NaN THEN NoName
  ELSE IF v[1] \in DOMAIN employees THEN employees[v[1]] ELSE "Unknown"
NameOf(v) == IF v # NaN /\ v[1] \in DOMAIN employees THEN employees[v[1]] ELSE NoName

\* mutant: a check-in at the threshold counts as late
StatusOfInclusive(t, late_t) == IF ~TimeLess(t, late_t) THEN "Late" ELSE "On Time"
StatusOf(t, late_t) == IF TimeLess(late_t, t) THEN "Late" ELSE "On Time"

Max0(n) == IF n > 0 THEN n ELSE 0

\* mutant: a started minute counts
MinutesLateWithSeconds(t, late_t) ==
  Max0((t.hour - late_t.hour) * 60 + (t.minute - late_t.minute)
       + (IF t.second > late_t.second THEN 1 ELSE 0))
MinutesLateOf(t, late_t) ==
  Max0((t.hour - late_t.hour) * 60 + (t.minute - late_t.minute))

EarlyCheckoutOf(t, early_checkout_t) == IF TimeLess(t, early_checkout_t) THEN "Yes" ELSE "No"

MinutesEarlyOf(t, early_checkout_t) ==
  Max0((early_checkout_t.hour - t.hour) * 60 + (early_checkout_t.minute - t.minute))

\* one row of merged, of the group key of df
MergedRow(df, key, late_t, early_checkout_t) ==
  LET CheckIn == TimeOf(MinTs(GroupOf(df, key)))
      CheckOut == TimeOf(MaxTs(GroupOf(df, key)))
  IN [UserID |-> key[1],
      UserID_int |-> ToNumeric(key[1]),
      Name |-> NameOf(ToNumeric(key[1])),
      Date |-> key[2],
      CheckIn |-> CheckIn,
      CheckOut |-> CheckOut,
      Status |-> StatusOf(CheckIn, late_t),
      MinutesLate |-> MinutesLateOf(CheckIn, late_t),
      EarlyCheckout |-> EarlyCheckoutOf(CheckOut, early_checkout_t),
      MinutesEarly |-> MinutesEarlyOf(CheckOut, early_checkout_t)]

\* merged.dropna(subset=["Name"])
DropNoName(rows) == {r \in rows : r.Name # NoName}

\* sort_values(by=["UserID_int", "Date"]) is stable: rows of equal key keep
\* the order of the groupby, which is that of the UserID text
RowBefore(r, q) ==
  \/ r.UserID_int[1] < q.UserID_int[1]
  \/ r.UserID_int[1] = q.UserID_int[1] /\ r.Date < q.Date
  \/ r.UserID_int[1] = q.UserID_int[1] /\ r.Date = q.Date /\ StrLess(r.UserID, q.UserID)

RECURSIVE SortRows(_)
SortRows(rows) ==
  IF rows = {} THEN <<>>
  ELSE LET first == CHOOSE r \in rows : \A q \in rows \ {r} : RowBefore(r, q)
       IN <<first>> \o SortRows(rows \ {first})

\* the columns of the returned frame (UserID_int is dropped)
OutputRow(r) ==
  [UserID |-> r.UserID, Name |-> r.Name, Date |-> r.Date, CheckIn |-> r.CheckIn,
   CheckOut |-> r.CheckOut, Status |-> r.Status, MinutesLate |-> r.MinutesLate,
   EarlyCheckout |-> r.EarlyCheckout, MinutesEarly |-> r.MinutesEarly]

summarize_attendance(df, late_t, early_checkout_t) ==
  LET merged == {MergedRow(df, key, late_t, early_checkout_t) : key \in GroupKeys(df)}
      sorted == SortRows(DropNoName(merged))
  IN [i \in 1..Len(sorted) |-> OutputRow(sorted[i])]

\* ------------------------------------------------- main flow: summary counts
\* list(employees.values()), in the order of the dict
RECURSIVE NamesInOrder(_)
NamesInOrder(ids) ==
  IF ids = {} THEN <<>>
  ELSE LET n == CHOOSE i \in ids : \A j \in ids : i <= j
       IN <<employees[n]>> \o NamesInOrder(ids \ {n})

\* mutant: a late row is one with minutes late
LateCountByMinutes(rows, name) ==
  Cardinality({i \in 1..Len(rows) : rows[i].Name = name /\ rows[i].MinutesLate > 0})
\* late_counts / early_counts: a name with no row in summary has no entry,
\* which the left merge and fillna(0) turn into 0
LateCount(rows, name) ==
  Cardinality({i \in 1..Len(rows) : rows[i].Name = name /\ rows[i].Status = "Late"})
EarlyCount(rows, name) ==
  Cardinality({i \in 1..Len(rows) : rows[i].Name = name /\ rows[i].EarlyCheckout = "Yes"})

\* summary["Date"].unique()
DatesInData(rows) == {rows[i].Date : i \in 1..Len(rows)}

\* mutant: the rows of the merge found on both sides are counted
LeaveCountBoth(rows, name) ==
  Cardinality({d \in {rows[i].Date : i \in 1..Len(rows)} :
                 \E i \in 1..Len(rows) : rows[i].Name = name /\ rows[i].Date = d})
\* the left_only rows of the merge of names x dates with summary[Name, Date]
LeaveCount(rows, name) ==
  Cardinality({d \in DatesInData(rows) :
                 ~\E i \in 1..Len(rows) : rows[i].Name = name /\ rows[i].Date = d})

SummaryCounts(rows) ==
  LET names == NamesInOrder(DOMAIN employees)
  IN [i \in 1..Len(names) |->
        [Name |-> names[i],
         TotalLates |-> LateCount(rows, names[i]),
         TotalEarlyCheckout |-> EarlyCount(rows, names[i]),
         TotalLeaves |-> LeaveCount(rows, names[i])]]

\* ------------------------------------------------------------- input files
NoFile == [none |-> TRUE]

\* a file written with delimiter delim ("" when its lines hold one field)
MkFile(delim, header, rows) ==
  LET lines == (IF header = <<>> THEN <<>> ELSE <<header>>) \o rows
  IN [delim |-> delim,
      lines |-> IF delim = "" THEN [i \in 1..Len(lines) |-> <<lines[i][1]>>] ELSE lines]

SeqsUpTo(S, n) == UNION {[1..k -> S] : k \in 0..n}

FmtSeconds == "%Y-%m-%d %H:%M:%S"
FmtMinutes == "%Y-%m-%d %H:%M"

\* the dates of the punches: 5 January 2024 is a Friday, 6 January 2024 a
\* Saturday
InputDates == [Friday |-> 5, Saturday |-> 6]
Friday == InputDates.Friday
Saturday == InputDates.Saturday

UserTokens ==
  { TextCell(<<"1">>), TextCell(<<"0","1">>), TextCell(<<" ","2">>),
    TextCell(<<"x">>), TextCell(<<"5">>) }

TimeTokens ==
  { TsCell(FmtSeconds, Friday, 8, 55, 0), TsCell(FmtSeconds, Friday, 9, 2, 30),
    TsCell(FmtMinutes, Saturday, 17, 30, 0) }

HeaderUserTime == <<TextCell(<<"U","s","e","r","I","D">>),
                    TextCell(<<"T","i","m","e","s","t","a","m","p">>)>>
HeaderUserOnly == <<TextCell(<<"I","D">>), TextCell(<<"W","h","e","n">>)>>
HeaderTimeOnly == <<TextCell(<<"N","a","m","e">>), TextCell(<<"T","i","m","e">>)>>
HeaderNeither == <<TextCell(<<"A">>), TextCell(<<"B">>)>>

\* comma-separated exports with a header, any rows
AttendanceFiles ==
  {MkFile(",", HeaderUserTime, rows) : rows \in SeqsUpTo(UserTokens \X TimeTokens, MaxRows)}

\* one employee's first and last punch of a Friday, around the thresholds
ThresholdFiles ==
  {MkFile(",", HeaderUserTime,
          << <<TextCell(<<"1">>), TsCell(FmtSeconds, Friday, 9, m1, s1)>>,
             <<TextCell(<<"1">>), TsCell(FmtSeconds, Friday, h2, m2, s2)>> >>) :
     m1 \in {1, 2, 3}, s1 \in {0, 1, 59}, h2 \in {16, 17}, m2 \in {0, 1, 59}, s2 \in {0, 1}}

SniffRows ==
  { <<TextCell(<<"1">>), TsCell(FmtSeconds, Friday, 9, 2, 30)>>,
    <<TextCell(<<"x">>), TsCell(FmtMinutes, Saturday, 17, 30, 0)>>,
    <<TextCell(<<"2">>), TextCell(<<InvalidByte, "?">>)>> }

\* every delimiter and header, a few rows, one with an unreadable time
SniffFiles ==
  {MkFile(delim, header, rows) :
     delim \in {"\t", ",", ";", "|", " ", ""},
     header \in {<<>>, HeaderUserTime, HeaderUserOnly, HeaderTimeOnly, HeaderNeither},
     rows \in SeqsUpTo(SniffRows, MaxSniffRows)}

Files == AttendanceFiles \cup ThresholdFiles \cup SniffFiles

\* ------------------------------------------------------------------ state
VARIABLES
  pc,              \* where the script is: sidebar, main, extracted, summarized, done, stopped, idle
  weekends_off,    \* the sidebar checkbox
  uploaded,        \* the uploaded file, or NoFile
  error,           \* the st.error message of a stopped run
  df_raw,          \* the frame _extract_dataframe returned
  summary,         \* the detail table
  summary_counts   \* the totals table

vars == <<pc, weekends_off, uploaded, error, df_raw, summary, summary_counts>>

Init ==
  /\ pc = "sidebar"
  /\ weekends_off = FALSE
  /\ uploaded = NoFile
  /\ error = ""
  /\ df_raw = <<>>
  /\ summary = <<>>
  /\ summary_counts = <<>>

\* lines 31-32 and 175: the sidebar widgets give this run's values
Sidebar ==
  /\ pc = "sidebar"
  /\ \E b \in BOOLEAN, f \in Files \cup {NoFile} :
       /\ weekends_off' = b
       /\ uploaded' = f
       /\ pc' = IF f = NoFile THEN "idle" ELSE "main"
  /\ UNCHANGED <<error, df_raw, summary, summary_counts>>

\* line 177: df_raw = _extract_dataframe(file_bytes), st.stop() on an error
ExtractDataframe ==
  /\ pc = "main"
  /\ LET res == extract_dataframe(uploaded, weekends_off)
     IN /\ error' = res.error
        /\ df_raw' = res.df
        /\ pc' = IF res.error = "" THEN "extracted" ELSE "stopped"
  /\ UNCHANGED <<weekends_off, uploaded, summary, summary_counts>>

\* line 180
SummarizeAttendance ==
  /\ pc = "extracted"
  /\ summary' = summarize_attendance(df_raw, CHECKIN_THRESHOLD, CHECKOUT_THRESHOLD)
  /\ pc' = "summarized"
  /\ UNCHANGED <<weekends_off, uploaded, error, df_raw, summary_counts>>

\* lines 212-227
CountSummary ==
  /\ pc = "summarized"
  /\ summary_counts' = SummaryCounts(summary)
  /\ pc' = "done"
  /\ UNCHANGED <<weekends_off, uploaded, error, df_raw, summary>>

\* a widget changes: Streamlit runs the script again from the top, and
\* nothing of the last run is kept
Rerun ==
  /\ pc \in {"idle", "stopped", "done"}
  /\ pc' = "sidebar"
  /\ weekends_off' = FALSE
  /\ uploaded' = NoFile
  /\ error' = ""
  /\ df_raw' = <<>>
  /\ summary' = <<>>
  /\ summary_counts' = <<>>

Next == Sidebar \/ ExtractDataframe \/ SummarizeAttendance \/ CountSummary \/ Rerun

Spec == Init /\ [][Next]_vars

\* ------------------------------------------------------------ properties
Summarized == pc \in {"summarized", "done"}
Done == pc = "done"
Extracted == pc \in {"extracted", "summarized", "done", "stopped"}

SecondsOfDay(t) == t.hour * 3600 + t.minute * 60 + t.second
RowIndexes == 1..Len(summary)
RowsOfName(name) == {i \in RowIndexes : summary[i].Name = name}
DatesOfName(name) == {summary[i].Date : i \in RowsOfName(name)}
DatesOfSummary == {summary[i].Date : i \in RowIndexes}
KnownId(uid) == ToNumeric(uid) # NaN /\ ToNumeric(uid)[1] \in DOMAIN employees

\* C1: every detail row's UserID coerces to an integer key of employees and
\* its Name is that entry's name; an event whose UserID is not numeric or not
\* in employees has no detail row.
C1_NoOrphanRows ==
  Summarized =>
    /\ \A i \in RowIndexes :
         /\ KnownId(summary[i].UserID)
         /\ summary[i].Name = employees[ToNumeric(summary[i].UserID)[1]]
    /\ \A e \in 1..Len(df_raw) :
         ~KnownId(df_raw[e].UserID) =>
           ~\E i \in RowIndexes : summary[i].UserID = df_raw[e].UserID

C1_Witness ==
  /\ Done
  /\ summary # <<>>
  /\ \E e \in 1..Len(df_raw) : ToNumeric(df_raw[e].UserID) = NaN
  /\ \E e \in 1..Len(df_raw) :
       ToNumeric(df_raw[e].UserID) # NaN /\ ~KnownId(df_raw[e].UserID)

\* C2: for every employee, Total Leaves plus the number of distinct dates on
\* which the employee has a detail row is the number of distinct dates of
\* the detail table.
C2_LeavesPlusPresentDates ==
  Done =>
    /\ \A name \in EmployeeNames : \E i \in 1..Len(summary_counts) : summary_counts[i].Name = name
    /\ \A i \in 1..Len(summary_counts) :
         summary_counts[i].TotalLeaves + Cardinality(DatesOfName(summary_counts[i].Name))
           = Cardinality(DatesOfSummary)

C2_Witness ==
  /\ Done
  /\ Cardinality(DatesOfSummary) = 2
  /\ \E i \in 1..Len(summary_counts) :
       /\ summary_counts[i].TotalLeaves = 1
       /\ Cardinality(DatesOfName(summary_counts[i].Name)) = 1

\* C3: the detail table has exactly one row per employee and date with a
\* surviving event of a directory user, and never two rows of one employee on
\* one date, whatever the text of the identifiers.
C3_OneRowPerEmployeeDate ==
  Summarized =>
    /\ \A e \in 1..Len(df_raw) :
         KnownId(df_raw[e].UserID) =>
           Cardinality({i \in RowIndexes :
                          /\ summary[i].Name = employees[ToNumeric(df_raw[e].UserID)[1]]
                          /\ summary[i].Date = df_raw[e].Date}) = 1
    /\ \A i, j \in RowIndexes :
         (summary[i].Name = summary[j].Name /\ summary[i].Date = summary[j].Date) => i = j

\* C4: the totals table has one row per directory entry; Total Lates and
\* Total Early Checkout count the employee's Late and Yes rows; an employee
\* with no detail row has 0, 0 and the number of dates as leaves.
C4_TotalsPerEmployee ==
  Done =>
    /\ Len(summary_counts) = Cardinality(DOMAIN employees)
    /\ \A n \in DOMAIN employees :
         Cardinality({i \in 1..Len(summary_counts) : summary_counts[i].Name = employees[n]}) = 1
    /\ \A i \in 1..Len(summary_counts) :
         LET name == summary_counts[i].Name
         IN /\ summary_counts[i].TotalLates
                 = Cardinality({j \in RowsOfName(name) : summary[j].Status = "Late"})
            /\ summary_counts[i].TotalEarlyCheckout
                 = Cardinality({j \in RowsOfName(name) : summary[j].EarlyCheckout = "Yes"})
            /\ RowsOfName(name) = {} =>
                 /\ summary_counts[i].TotalLates = 0
                 /\ summary_counts[i].TotalEarlyCheckout = 0
                 /\ summary_counts[i].TotalLeaves = Cardinality(DatesOfSummary)

C4_Witness ==
  /\ Done
  /\ \E i \in 1..Len(summary_counts) :
       summary_counts[i].TotalLates >= 1 /\ summary_counts[i].TotalEarlyCheckout >= 1
  /\ \E i \in 1..Len(summary_counts) :
       RowsOfName(summary_counts[i].Name) = {} /\ summary_counts[i].TotalLeaves = 2

\* C5: a row is Late exactly when its check-in time of day is strictly after
\* the check-in threshold, and Early Checkout is Yes exactly when its
\* check-out time of day is strictly before the checkout threshold.
C5_StrictThresholds ==
  Summarized =>
    \A i \in RowIndexes :
      /\ summary[i].Status \in {"Late", "On Time"}
      /\ summary[i].Status = "Late"
           <=> SecondsOfDay(summary[i].CheckIn) > SecondsOfDay(CHECKIN_THRESHOLD)
      /\ summary[i].EarlyCheckout \in {"Yes", "No"}
      /\ summary[i].EarlyCheckout = "Yes"
           <=> SecondsOfDay(summary[i].CheckOut) < SecondsOfDay(CHECKOUT_THRESHOLD)

C5_Witness ==
  /\ Done
  /\ \E i \in RowIndexes :
       /\ summary[i].CheckIn = CHECKIN_THRESHOLD
       /\ summary[i].Status = "On Time"
       /\ summary[i].CheckOut = CHECKOUT_THRESHOLD
       /\ summary[i].EarlyCheckout = "No"

\* every punch of the uploaded file is of a Saturday, and some punch is read
AllInputOnSaturday ==
  /\ \A i \in 1..Len(uploaded.lines) : \A j \in 1..Len(uploaded.lines[i]) :
       uploaded.lines[i][j].k = "ts" => Weekday(uploaded.lines[i][j].date) = 5
  /\ extract_dataframe(uploaded, FALSE).error = ""
  /\ extract_dataframe(uploaded, FALSE).df # <<>>

C7_PositionalFallback ==
  Extracted =>
    LET raw == try_read_csv(coerce_encoding(uploaded))
    IN (raw.ok /\ raw.rows # <<>> /\ Len(raw.labels) >= 2) =>
         LET labels == CoerceLabels(raw.labels)
         IN (\/ FirstCandidate(labels, CANDIDATE_USER_COLS, 1) = 0
             \/ FirstCandidate(labels, CANDIDATE_TIME_COLS, 1) = 0) =>
              /\ error = ""
              /\ df_raw = EventsOf(raw.rows, <<1, 2>>, weekends_off)

\* C8: when no delimiter gives 2 columns and the whitespace split gives
\* fewer than 2 too, the run stops with the parse error and there is no
\* detail or totals table.
C8_ParseErrorBelowTwoColumns ==
  Extracted =>
    LET ws == ReadCsvWhitespace(coerce_encoding(uploaded))
    IN (/\ \A i \in 1..Len(Separators) :
             ~(ReadCsvSep(coerce_encoding(uploaded), Separators[i]).ok
               /\ Len(ReadCsvSep(coerce_encoding(uploaded), Separators[i]).labels) >= 2)
        /\ (~ws.ok \/ Len(ws.labels) < 2)) =>
         /\ pc = "stopped"
         /\ error = ParseError
         /\ summary = <<>>
         /\ summary_counts = <<>>

\* C9: Minutes Late is max(0, hour and minute difference to the threshold),
\* never negative and blind to seconds; Minutes Late > 0 implies Late.
C9_MinutesLate ==
  Summarized =>
    \A i \in RowIndexes :
      LET delta == (summary[i].CheckIn.hour - CHECKIN_THRESHOLD.hour) * 60
                   + (summary[i].CheckIn.minute - CHECKIN_THRESHOLD.minute)
      IN /\ summary[i].MinutesLate = (IF delta > 0 THEN delta ELSE 0)
         /\ summary[i].MinutesLate >= 0
         /\ summary[i].MinutesLate > 0 => summary[i].Status = "Late"

\* a Late row with 0 minutes late: the check-in passes the threshold by seconds
C9_Witness ==
  /\ Done
  /\ \E i \in RowIndexes : summary[i].Status = "Late" /\ summary[i].MinutesLate = 0

\* C10: CheckIn and CheckOut are the times of day of the earliest and the
\* latest surviving event of the row's user on the row's date, so CheckIn <=
\* CheckOut, with equality when there is one punch.
C10_FirstAndLastPunch ==
  Summarized =>
    \A i \in RowIndexes :
      LET punches == {e \in 1..Len(df_raw) :
                        df_raw[e].UserID = summary[i].UserID /\ df_raw[e].Date = summary[i].Date}
          times == {SecondsOfDay(TimeOf(df_raw[e].Timestamp)) : e \in punches}
      IN /\ punches # {}
         /\ SecondsOfDay(summary[i].CheckIn) \in times
         /\ \A t \in times : SecondsOfDay(summary[i].CheckIn) <= t
         /\ SecondsOfDay(summary[i].CheckOut) \in times
         /\ \A t \in times : t <= SecondsOfDay(summary[i].CheckOut)
         /\ SecondsOfDay(summary[i].CheckIn) <= SecondsOfDay(summary[i].CheckOut)
         /\ Cardinality(punches) = 1 => summary[i].CheckIn = summary[i].CheckOut

C10_Witness ==
  /\ Done
  /\ \E i \in RowIndexes : SecondsOfDay(summary[i].CheckIn) < SecondsOfDay(summary[i].CheckOut)
  /\ \E i \in RowIndexes :
       Cardinality({e \in 1..Len(df_raw) :
                      df_raw[e].UserID = summary[i].UserID /\ df_raw[e].Date = summary[i].Date}) = 1
====
